---- MODULE Spec2Model ----
(***************************************************************************)
(* Model of the classification core of the market scanner                  *)
(* (src/market_scanner/strategies.py with the thresholds of config.py).    *)
(*                                                                         *)
(* Numbers.  The code computes with IEEE doubles (numpy.float64 for the    *)
(* closes, Python floats and ints for the volumes).  A double is modelled  *)
(* as a fraction n/d in lowest terms with d > 0, or as one of the three    *)
(* special values +inf (1/0), -inf (-1/0) and NaN (0/0).  Arithmetic on    *)
(* finite values is exact: the rounding error of a double is not modelled, *)
(* the propagation of inf and NaN and every comparison is.                 *)
(*                                                                         *)
(* Spec      one stock record, drawn from the price series and the volume  *)
(*           data below, and the calls of classify_stock on it.            *)
(* SpecRules the three classifiers and the arbitration of classify_stock   *)
(*           applied to feature sets drawn around the thresholds.          *)
(* SpecCore  both.                                                         *)
(* SpecList  the list of records main() classifies, with the calls of      *)
(*           classify_stock on its records interleaved step by step.       *)
(* SpecMain  the runs of main.py, main_full.py and prepare_universe.py,    *)
(*           one after another, over the ticker universe cache file.       *)
(***************************************************************************)
EXTENDS Integers, Sequences, FiniteSets, TLC

VARIABLES stock_data, price_changes, verdicts, classification, phase,
          filtered_data, frames, run, universe_cache_file

vars == <<stock_data, price_changes, verdicts, classification, phase,
          filtered_data, frames, run, universe_cache_file>>

----------------------------------------------------------------------------
(* Bounds of the model *)

\* longest price series drawn (6 bars are needed for the 5-day window)
MaxLen == 6

\* longest list of records classified together
NStocks == 2

\* number of ticker symbols the exchanges list
NTickers == 2

----------------------------------------------------------------------------
(* config.py *)

STRONG_TREND_MIN_GAIN == 5
STRONG_TREND_3DAY_TOTAL == 15
PANIC_1DAY_DROP == 8
PANIC_3DAY_DROP == 15
EUPHORIA_1DAY_GAIN == 8
EUPHORIA_5DAY_GAIN == 20
MIN_MARKET_CAP == 500000000
MIN_PRICE == 3
MIN_AVG_VOLUME == 20000000
AVG_VOLUME_DAYS == 20
USE_CACHED_UNIVERSE == TRUE

----------------------------------------------------------------------------
(* Doubles *)

Abs(i) == IF i < 0 THEN -i ELSE i

Sgn(i) == IF i < 0 THEN -1 ELSE IF i > 0 THEN 1 ELSE 0

RECURSIVE GCD(_, _)
GCD(a, b) == IF b = 0 THEN a ELSE GCD(b, a % b)

\* the double n/d, d # 0, in lowest terms with a positive denominator
Rat(n, d) ==
    LET g == GCD(Abs(n), Abs(d))
    IN  [n |-> Sgn(d) * (n \div g), d |-> Abs(d) \div g]

Flt(i) == [n |-> i, d |-> 1]

PosInf == [n |-> 1, d |-> 0]
NegInf == [n |-> -1, d |-> 0]
NaN == [n |-> 0, d |-> 0]

IsNaN(x) == x.d = 0 /\ x.n = 0
IsInf(x) == x.d = 0 /\ x.n # 0
IsFinite(x) == x.d # 0

\* config.PANIC_VOLUME_MULTIPLIER = 1.5
PANIC_VOLUME_MULTIPLIER == Rat(3, 2)

FAdd(a, b) ==
    IF IsNaN(a) \/ IsNaN(b) THEN NaN
    ELSE IF IsInf(a) /\ IsInf(b) THEN (IF a.n = b.n THEN a ELSE NaN)
    ELSE IF IsInf(a) THEN a
    ELSE IF IsInf(b) THEN b
    ELSE Rat(a.n * b.d + b.n * a.d, a.d * b.d)

FNeg(a) == [n |-> -a.n, d |-> a.d]

FSub(a, b) == FAdd(a, FNeg(b))

FMul(a, b) ==
    IF IsNaN(a) \/ IsNaN(b) THEN NaN
    ELSE IF IsInf(a) \/ IsInf(b)
         THEN (IF a.n = 0 \/ b.n = 0 THEN NaN
               ELSE [n |-> Sgn(a.n) * Sgn(b.n), d |-> 0])
    ELSE Rat(a.n * b.n, a.d * b.d)

\* numpy division: x/0 is +inf or -inf and 0/0 is NaN (a warning, no exception)
FDiv(a, b) ==
    IF IsNaN(a) \/ IsNaN(b) THEN NaN
    ELSE IF IsInf(a) /\ IsInf(b) THEN NaN
    ELSE IF IsInf(a) THEN [n |-> a.n * (IF b.n < 0 THEN -1 ELSE 1), d |-> 0]
    ELSE IF IsInf(b) THEN Flt(0)
    ELSE IF b.n = 0 THEN [n |-> Sgn(a.n), d |-> 0]
    ELSE Rat(a.n * b.d, a.d * b.n)

\* a < b on doubles: every comparison with NaN is false
FLt(a, b) ==
    /\ ~IsNaN(a)
    /\ ~IsNaN(b)
    /\ \/ IsFinite(a) /\ IsFinite(b) /\ a.n * b.d < b.n * a.d
       \/ a = NegInf /\ b # NegInf
       \/ b = PosInf /\ a # PosInf

FGt(a, b) == FLt(b, a)

FLe(a, b) == ~IsNaN(a) /\ ~IsNaN(b) /\ ~FLt(b, a)

FGe(a, b) == FLe(b, a)

FAbs(a) == [n |-> Abs(a.n), d |-> a.d]

\* f"{x:.1f}": the decimal with one digit after the point nearest to x
\* (ties to even), or the text inf, -inf, nan
Fmt1(x) ==
    IF ~IsFinite(x) THEN x
    ELSE LET q == (10 * x.n) \div x.d
             r == 10 * x.n - q * x.d
             t == IF 2 * r < x.d THEN q
                  ELSE IF 2 * r > x.d THEN q + 1
                  ELSE IF q % 2 = 0 THEN q ELSE q + 1
         IN  Rat(t, 10)

----------------------------------------------------------------------------
(* Python values *)

None == [none |-> TRUE]

\* variant: the update also empties the price history
Update_ClearsHistory(d, e) ==
    [k \in (DOMAIN d) \cup (DOMAIN e) |->
        IF k \in DOMAIN e THEN e[k]
        ELSE IF k = "price_history" THEN <<>> ELSE d[k]]

\* variant: the update also writes the 5-day average over the average volume
Update_OverwritesVolume(d, e) ==
    [k \in (DOMAIN d) \cup (DOMAIN e) |->
        IF k \in DOMAIN e THEN e[k]
        ELSE IF k = "avg_volume_20d" THEN e.avg_daily_change_5d ELSE d[k]]

\* dict.update: the keys of e are added to d or overwritten
Update(d, e) ==
    [k \in (DOMAIN d) \cup (DOMAIN e) |-> IF k \in DOMAIN e THEN e[k] ELSE d[k]]

\* closes.iloc[-i] of a series
ILoc(closes, i) == closes[Len(closes) + 1 - i]

RECURSIVE Sum(_)
Sum(s) == IF s = <<>> THEN Flt(0) ELSE FAdd(Sum(SubSeq(s, 1, Len(s) - 1)), s[Len(s)])

----------------------------------------------------------------------------
(* strategies.py: the feature extractor *)

\* ((a / b) - 1) * 100 on two closes
PctChange(a, b) == FMul(FSub(FDiv(Flt(a), Flt(b)), Flt(1)), Flt(100))

\* (a / b) - 1 on two closes
DayGain(a, b) == FSub(FDiv(Flt(a), Flt(b)), Flt(1))

\* variant: a day-over-day gain must exceed the threshold
ConsecutiveGains_Strict(closes) ==
    LET min_gain == FDiv(Flt(STRONG_TREND_MIN_GAIN), Flt(100))
        day1_gain == DayGain(ILoc(closes, 1), ILoc(closes, 2))
        day2_gain == DayGain(ILoc(closes, 2), ILoc(closes, 3))
        day3_gain == DayGain(ILoc(closes, 3), ILoc(closes, 4))
    IN  /\ FGt(day1_gain, min_gain)
        /\ FGt(day2_gain, min_gain)
        /\ FGt(day3_gain, min_gain)

\* the three day-over-day gains of the 4 latest closes against the threshold
ConsecutiveGains(closes) ==
    LET min_gain == FDiv(Flt(STRONG_TREND_MIN_GAIN), Flt(100))
        day1_gain == DayGain(ILoc(closes, 1), ILoc(closes, 2))
        day2_gain == DayGain(ILoc(closes, 2), ILoc(closes, 3))
        day3_gain == DayGain(ILoc(closes, 3), ILoc(closes, 4))
    IN  /\ FGe(day1_gain, min_gain)
        /\ FGe(day2_gain, min_gain)
        /\ FGe(day3_gain, min_gain)

\* variant: the daily changes are collected newest first
DailyChanges_NewestFirst(closes) ==
    [j \in 1..5 |-> PctChange(ILoc(closes, j), ILoc(closes, j + 1))]

\* the loop for i in range(-5, 0): closes.iloc[i] against closes.iloc[i-1]
DailyChanges(closes) ==
    [j \in 1..5 |-> PctChange(ILoc(closes, 6 - j), ILoc(closes, 7 - j))]

\* variant: a window without enough history takes the 1-day change
Features_ShortWindow1d(closes) ==
    LET daily_changes == IF Len(closes) >= 6 THEN DailyChanges(closes) ELSE <<>>
        change_1d == PctChange(ILoc(closes, 1), ILoc(closes, 2))
    IN  [change_1d |-> change_1d,
         change_3d |->
             IF Len(closes) >= 4
             THEN PctChange(ILoc(closes, 1), ILoc(closes, 4))
             ELSE change_1d,
         change_5d |->
             IF Len(closes) >= 6
             THEN PctChange(ILoc(closes, 1), ILoc(closes, 6))
             ELSE change_1d,
         change_3d_consecutive |->
             IF Len(closes) >= 4 THEN ConsecutiveGains(closes) ELSE FALSE,
         daily_changes |-> daily_changes,
         avg_daily_change_5d |->
             IF Len(closes) >= 6
             THEN FDiv(Sum(daily_changes), Flt(Len(daily_changes)))
             ELSE Flt(0)]

\* variant: the N-day change divides by the close at position -N
Features_PositionN(closes) ==
    LET daily_changes == IF Len(closes) >= 6 THEN DailyChanges(closes) ELSE <<>>
    IN  [change_1d |->
             IF Len(closes) >= 2
             THEN PctChange(ILoc(closes, 1), ILoc(closes, 1))
             ELSE Flt(0),
         change_3d |->
             IF Len(closes) >= 4
             THEN PctChange(ILoc(closes, 1), ILoc(closes, 3))
             ELSE Flt(0),
         change_5d |->
             IF Len(closes) >= 6
             THEN PctChange(ILoc(closes, 1), ILoc(closes, 5))
             ELSE Flt(0),
         change_3d_consecutive |->
             IF Len(closes) >= 4 THEN ConsecutiveGains(closes) ELSE FALSE,
         daily_changes |-> daily_changes,
         avg_daily_change_5d |->
             IF Len(closes) >= 6
             THEN FDiv(Sum(daily_changes), Flt(Len(daily_changes)))
             ELSE Flt(0)]

\* variant: a window without enough history is NaN instead of 0
Features_NaN(closes) ==
    LET daily_changes == IF Len(closes) >= 6 THEN DailyChanges(closes) ELSE <<>>
    IN  [change_1d |-> PctChange(ILoc(closes, 1), ILoc(closes, 2)),
         change_3d |->
             IF Len(closes) >= 4
             THEN PctChange(ILoc(closes, 1), ILoc(closes, 4))
             ELSE NaN,
         change_5d |->
             IF Len(closes) >= 6
             THEN PctChange(ILoc(closes, 1), ILoc(closes, 6))
             ELSE NaN,
         change_3d_consecutive |->
             IF Len(closes) >= 4 THEN ConsecutiveGains(closes) ELSE FALSE,
         daily_changes |-> daily_changes,
         avg_daily_change_5d |->
             IF Len(closes) >= 6
             THEN FDiv(Sum(daily_changes), Flt(Len(daily_changes)))
             ELSE Flt(0)]

\* the dictionary calculate_price_changes returns for 2 bars or more
Features(closes) ==
    LET daily_changes == IF Len(closes) >= 6 THEN DailyChanges(closes) ELSE <<>>
    IN  [change_1d |->
             IF Len(closes) >= 2
             THEN PctChange(ILoc(closes, 1), ILoc(closes, 2))
             ELSE Flt(0),
         change_3d |->
             IF Len(closes) >= 4
             THEN PctChange(ILoc(closes, 1), ILoc(closes, 4))
             ELSE Flt(0),
         change_5d |->
             IF Len(closes) >= 6
             THEN PctChange(ILoc(closes, 1), ILoc(closes, 6))
             ELSE Flt(0),
         change_3d_consecutive |->
             IF Len(closes) >= 4 THEN ConsecutiveGains(closes) ELSE FALSE,
         daily_changes |-> daily_changes,
         avg_daily_change_5d |->
             IF Len(closes) >= 6
             THEN FDiv(Sum(daily_changes), Flt(Len(daily_changes)))
             ELSE Flt(0)]

\* variant: a series that is too short gets the features of "no change"
calculate_price_changes_Default(price_history) ==
    IF Len(price_history) < 2
    THEN [change_1d |-> Flt(0), change_3d |-> Flt(0), change_5d |-> Flt(0),
          change_3d_consecutive |-> FALSE, daily_changes |-> <<>>,
          avg_daily_change_5d |-> Flt(0)]
    ELSE Features(price_history)

calculate_price_changes(price_history) ==
    IF Len(price_history) < 2 THEN None ELSE Features(price_history)

----------------------------------------------------------------------------
(* strategies.py: the three classifiers *)

\* what a call of a classifier does: it returns (bool, reason), it raises,
\* or (inside classify_stock, after an exception) it is never made
Returned(fired, reason) == [st |-> "returned", fired |-> fired, reason |-> reason]
Raised(exc) == [st |-> "raised", fired |-> FALSE, reason |-> <<exc>>]
NotRun == [st |-> "not_run", fired |-> FALSE, reason |-> <<>>]

NoReason == <<"">>

\* variant: the 3-day total must exceed the threshold
\* variant: the 3-day total is tested before the consecutive gains
classify_strong_trend_TotalFirst(sd, pc) ==
    IF pc = None THEN Returned(FALSE, NoReason)
    ELSE IF /\ FGe(pc.change_3d, Flt(STRONG_TREND_3DAY_TOTAL))
            /\ FGt(pc.change_1d, Flt(0))
    THEN Returned(TRUE, <<"{:.1f}% gain over 3 days with positive momentum",
                          Fmt1(pc.change_3d)>>)
    ELSE IF pc.change_3d_consecutive
    THEN Returned(TRUE, <<"3 consecutive days with {}%+ gains each",
                          Flt(STRONG_TREND_MIN_GAIN)>>)
    ELSE Returned(FALSE, NoReason)

classify_strong_trend_Strict(sd, pc) ==
    IF pc = None THEN Returned(FALSE, NoReason)
    ELSE IF pc.change_3d_consecutive
    THEN Returned(TRUE, <<"3 consecutive days with {}%+ gains each",
                          Flt(STRONG_TREND_MIN_GAIN)>>)
    ELSE IF /\ FGt(pc.change_3d, Flt(STRONG_TREND_3DAY_TOTAL))
            /\ FGt(pc.change_1d, Flt(0))
    THEN Returned(TRUE, <<"{:.1f}% gain over 3 days with positive momentum",
                          Fmt1(pc.change_3d)>>)
    ELSE Returned(FALSE, NoReason)

classify_strong_trend(sd, pc) ==
    IF pc = None THEN Returned(FALSE, NoReason)
    ELSE IF pc.change_3d_consecutive
    THEN Returned(TRUE, <<"3 consecutive days with {}%+ gains each",
                          Flt(STRONG_TREND_MIN_GAIN)>>)
    ELSE IF /\ FGe(pc.change_3d, Flt(STRONG_TREND_3DAY_TOTAL))
            /\ FGt(pc.change_1d, Flt(0))
    THEN Returned(TRUE, <<"{:.1f}% gain over 3 days with positive momentum",
                          Fmt1(pc.change_3d)>>)
    ELSE Returned(FALSE, NoReason)

\* variant: the 3-day check looks at the size of the move, not its direction
Panic3Day_AnyMove(pc) ==
    IF FGe(FAbs(pc.change_3d), Flt(PANIC_3DAY_DROP))
    THEN Returned(TRUE, <<"{:.1f}% drop over 3 days", Fmt1(FAbs(pc.change_3d))>>)
    ELSE Returned(FALSE, NoReason)

\* the 3-day check of classify_panic and its final return
Panic3Day(pc) ==
    IF FLe(pc.change_3d, FNeg(Flt(PANIC_3DAY_DROP)))
    THEN Returned(TRUE, <<"{:.1f}% drop over 3 days", Fmt1(FAbs(pc.change_3d))>>)
    ELSE Returned(FALSE, NoReason)

classify_panic(sd, pc) ==
    IF pc = None THEN Returned(FALSE, NoReason)
    ELSE IF FLe(pc.change_1d, FNeg(Flt(PANIC_1DAY_DROP)))
    THEN LET volume_history == sd.volume_history
             avg_volume == sd.avg_volume_20d
         IN  IF Len(volume_history) > 0
             THEN LET current_volume == volume_history[Len(volume_history)]
                      volume_spike ==
                          FGt(current_volume, FMul(avg_volume, PANIC_VOLUME_MULTIPLIER))
                  IN  IF volume_spike
                      THEN \* current_volume/avg_volume on Python numbers
                           IF avg_volume = Flt(0)
                           THEN Raised("ZeroDivisionError")
                           ELSE Returned(TRUE,
                                    <<"{:.1f}% drop in 1 day with {:.1f}x volume spike",
                                      Fmt1(FAbs(pc.change_1d)),
                                      Fmt1(FDiv(current_volume, avg_volume))>>)
                      ELSE Returned(TRUE, <<"{:.1f}% drop in 1 day",
                                            Fmt1(FAbs(pc.change_1d))>>)
             ELSE Panic3Day(pc)
    ELSE Panic3Day(pc)

\* variant: the 5-day gain is tested before the 1-day gain
classify_euphoria_5DayFirst(sd, pc) ==
    IF pc = None THEN Returned(FALSE, NoReason)
    ELSE IF FGe(pc.change_5d, Flt(EUPHORIA_5DAY_GAIN))
    THEN Returned(TRUE, <<"{:.1f}% gain over 5 days", Fmt1(pc.change_5d)>>)
    ELSE IF FGe(pc.change_1d, Flt(EUPHORIA_1DAY_GAIN))
    THEN IF /\ FGt(pc.avg_daily_change_5d, Flt(0))
            /\ FGt(pc.change_1d, pc.avg_daily_change_5d)
         THEN Returned(TRUE, <<"{:.1f}% gain in 1 day with acceleration (avg: {:.1f}%)",
                               Fmt1(pc.change_1d), Fmt1(pc.avg_daily_change_5d)>>)
         ELSE Returned(TRUE, <<"{:.1f}% gain in 1 day", Fmt1(pc.change_1d)>>)
    ELSE Returned(FALSE, NoReason)

\* variant: a 1-day gain equal to the 5-day average counts as acceleration
classify_euphoria_AccelGe(sd, pc) ==
    IF pc = None THEN Returned(FALSE, NoReason)
    ELSE IF FGe(pc.change_1d, Flt(EUPHORIA_1DAY_GAIN))
    THEN IF /\ FGt(pc.avg_daily_change_5d, Flt(0))
            /\ FGe(pc.change_1d, pc.avg_daily_change_5d)
         THEN Returned(TRUE, <<"{:.1f}% gain in 1 day with acceleration (avg: {:.1f}%)",
                               Fmt1(pc.change_1d), Fmt1(pc.avg_daily_change_5d)>>)
         ELSE Returned(TRUE, <<"{:.1f}% gain in 1 day", Fmt1(pc.change_1d)>>)
    ELSE IF FGe(pc.change_5d, Flt(EUPHORIA_5DAY_GAIN))
    THEN Returned(TRUE, <<"{:.1f}% gain over 5 days", Fmt1(pc.change_5d)>>)
    ELSE Returned(FALSE, NoReason)

classify_euphoria(sd, pc) ==
    IF pc = None THEN Returned(FALSE, NoReason)
    ELSE IF FGe(pc.change_1d, Flt(EUPHORIA_1DAY_GAIN))
    THEN IF /\ FGt(pc.avg_daily_change_5d, Flt(0))
            /\ FGt(pc.change_1d, pc.avg_daily_change_5d)
         THEN Returned(TRUE, <<"{:.1f}% gain in 1 day with acceleration (avg: {:.1f}%)",
                               Fmt1(pc.change_1d), Fmt1(pc.avg_daily_change_5d)>>)
         ELSE Returned(TRUE, <<"{:.1f}% gain in 1 day", Fmt1(pc.change_1d)>>)
    ELSE IF FGe(pc.change_5d, Flt(EUPHORIA_5DAY_GAIN))
    THEN Returned(TRUE, <<"{:.1f}% gain over 5 days", Fmt1(pc.change_5d)>>)
    ELSE Returned(FALSE, NoReason)

----------------------------------------------------------------------------
(* strategies.py: classify_stock *)

Verdict(strategy, reason) == [strategy |-> strategy, reason |-> reason]

\* variant: the priority order is applied before the noise filter
Arbitrate_PriorityFirst(trend, panic, euphoria) ==
    IF trend.fired THEN Verdict("strong_trend", trend.reason)
    ELSE IF panic.fired /\ euphoria.fired THEN None
    ELSE IF panic.fired THEN Verdict("panic", panic.reason)
    ELSE IF euphoria.fired THEN Verdict("euphoria", euphoria.reason)
    ELSE None

\* variant: panic is tested before strong trend
Arbitrate_PanicFirst(trend, panic, euphoria) ==
    IF panic.fired /\ euphoria.fired THEN None
    ELSE IF panic.fired THEN Verdict("panic", panic.reason)
    ELSE IF trend.fired THEN Verdict("strong_trend", trend.reason)
    ELSE IF euphoria.fired THEN Verdict("euphoria", euphoria.reason)
    ELSE None

\* the noise filter and the priority order on the three returned verdicts
Arbitrate(trend, panic, euphoria) ==
    IF panic.fired /\ euphoria.fired THEN None
    ELSE IF trend.fired THEN Verdict("strong_trend", trend.reason)
    ELSE IF panic.fired THEN Verdict("panic", panic.reason)
    ELSE IF euphoria.fired THEN Verdict("euphoria", euphoria.reason)
    ELSE None

\* The whole call: the record as the call leaves it, the locals, and what
\* the caller gets (a verdict, None, or the exception a classifier raised).
classify_stock(sd) ==
    LET pc == calculate_price_changes(sd.price_history)
    IN  IF pc = None
        THEN [stock_data |-> sd, price_changes |-> None,
              verdicts |-> [trend |-> NotRun, panic |-> NotRun, euphoria |-> NotRun],
              result |-> None]
        ELSE LET enriched == Update(sd, pc)
                 trend == classify_strong_trend(enriched, pc)
                 panic == classify_panic(enriched, pc)
             IN  IF panic.st = "raised"
                 THEN [stock_data |-> enriched, price_changes |-> pc,
                       verdicts |-> [trend |-> trend, panic |-> panic,
                                     euphoria |-> NotRun],
                       result |-> panic]
                 ELSE LET euphoria == classify_euphoria(enriched, pc)
                      IN  [stock_data |-> enriched, price_changes |-> pc,
                           verdicts |-> [trend |-> trend, panic |-> panic,
                                         euphoria |-> euphoria],
                           result |-> Arbitrate(trend, panic, euphoria)]

----------------------------------------------------------------------------
(* The inputs *)

\* closes of a well-formed series.  On every series over these four prices
\* the doubles of the code and the exact fractions of the model take the same
\* side of every threshold (a step from 10 to 12 would not: it is 20% exactly,
\* and 19.999999999999996 in doubles); 20 to 21 is a gain of exactly 5%.
Prices == {14, 18, 20, 21}

\* closes of a malformed series: a negative one, a zero, a positive one
BadPrices == {-10, 0, 10}

RECURSIVE SeqsOfLen(_, _)
SeqsOfLen(S, n) ==
    IF n = 0 THEN {<<>>}
    ELSE {Append(s, x) : s \in SeqsOfLen(S, n - 1), x \in S}

PriceSeries ==
    UNION {SeqsOfLen(Prices, n) \cup SeqsOfLen(BadPrices, n) : n \in 0..MaxLen}

\* (volume_history, avg_volume_20d) of a record: no volume at all, a latest
\* volume below, at exactly 1.5 times and at twice the average, and an
\* average of zero under a positive latest volume
VolumeData ==
    {<< <<>>, Flt(2) >>, << <<Flt(2), Flt(1)>>, Flt(2) >>,
     << <<Flt(2), Flt(3)>>, Flt(2) >>, << <<Flt(2), Flt(4)>>, Flt(2) >>,
     << <<Flt(0), Flt(4)>>, Flt(0) >>}

StockRecord(ph, v) ==
    [price_history |-> ph, volume_history |-> v[1], avg_volume_20d |-> v[2]]

NoVerdicts == [trend |-> NotRun, panic |-> NotRun, euphoria |-> NotRun]

----------------------------------------------------------------------------
(* Spec: one stock record and the calls of classify_stock on it *)

Init ==
    /\ \E ph \in PriceSeries, v \in VolumeData : stock_data = StockRecord(ph, v)
    /\ price_changes = None
    /\ verdicts = NoVerdicts
    /\ classification = None
    /\ phase = "fetched"
    /\ filtered_data = <<>>
    /\ frames = <<>>
    /\ run = None
    /\ universe_cache_file = None

\* classification = classify_stock(stock); the call also updates the record.
\* The first call leaves the phase "classified", every later one "reclassified".
ClassifyStock ==
    /\ phase \in {"fetched", "classified", "reclassified"}
    /\ \E r \in {classify_stock(stock_data)} :
           /\ stock_data' = r.stock_data
           /\ price_changes' = r.price_changes
           /\ verdicts' = r.verdicts
           /\ classification' = r.result
    /\ phase' = IF phase = "fetched" THEN "classified" ELSE "reclassified"
    /\ UNCHANGED <<filtered_data, frames,
                   run, universe_cache_file>>

Next == ClassifyStock

Spec == Init /\ [][Next]_vars

----------------------------------------------------------------------------
(* SpecRules: the three classifiers as pure functions of a feature set *)

\* percentages around the thresholds, in tenths of a percent, and the
\* non-finite values a zero close produces
Tenths(S) == {Rat(t, 10) : t \in S}

Change1dValues == Tenths({-90, -80, -79, 0, 1, 79, 80, 90}) \cup {NaN, PosInf, NegInf}
Change3dValues == Tenths({-160, -150, -149, 0, 149, 150, 160}) \cup {NaN, PosInf}
Change5dValues == Tenths({0, 199, 200, 210})
AvgDailyValues == Tenths({0, 50, 90, 95})

FeatureSets ==
    [change_1d : Change1dValues, change_3d : Change3dValues,
     change_5d : Change5dValues, change_3d_consecutive : BOOLEAN,
     daily_changes : {<<>>}, avg_daily_change_5d : AvgDailyValues]

InitRules ==
    /\ \E v \in VolumeData : stock_data = StockRecord(<<>>, v)
    /\ price_changes \in FeatureSets
    /\ verdicts = NoVerdicts
    /\ classification = None
    /\ phase = "features"
    /\ filtered_data = <<>>
    /\ frames = <<>>
    /\ run = None
    /\ universe_cache_file = None

CallStrongTrend ==
    /\ phase = "features"
    /\ verdicts' = [verdicts EXCEPT !.trend = classify_strong_trend(stock_data, price_changes)]
    /\ UNCHANGED <<stock_data, price_changes, classification, phase,
                   filtered_data, frames,
                   run, universe_cache_file>>

CallPanic ==
    /\ phase = "features"
    /\ verdicts' = [verdicts EXCEPT !.panic = classify_panic(stock_data, price_changes)]
    /\ UNCHANGED <<stock_data, price_changes, classification, phase,
                   filtered_data, frames,
                   run, universe_cache_file>>

CallEuphoria ==
    /\ phase = "features"
    /\ verdicts' = [verdicts EXCEPT !.euphoria = classify_euphoria(stock_data, price_changes)]
    /\ UNCHANGED <<stock_data, price_changes, classification, phase,
                   filtered_data, frames,
                   run, universe_cache_file>>

\* lines 207-230 of classify_stock on the verdicts of the three classifiers
ArbitrateVerdicts ==
    /\ phase = "features"
    /\ \A k \in DOMAIN verdicts : verdicts[k].st = "returned"
    /\ classification' = Arbitrate(verdicts.trend, verdicts.panic, verdicts.euphoria)
    /\ phase' = "arbitrated"
    /\ UNCHANGED <<stock_data, price_changes, verdicts, filtered_data, frames,
                   run, universe_cache_file>>

NextRules == CallStrongTrend \/ CallPanic \/ CallEuphoria \/ ArbitrateVerdicts

SpecRules == InitRules /\ [][NextRules]_vars

----------------------------------------------------------------------------
(* SpecCore: both of the above, the records and the feature sets *)

InitCore == Init \/ InitRules

NextCore == Next \/ NextRules

SpecCore == InitCore /\ [][NextCore]_vars

----------------------------------------------------------------------------
(* SpecList: the records of filtered_data and one call of classify_stock   *)
(* on each, the calls taken in any order and interleaved                   *)

\* closes of the records: 5 bars or more (fetch_stock_data drops shorter
\* histories), one series for each verdict and one without a verdict
ListSeries ==
    {<<14, 14, 18, 20, 21>>, <<21, 21, 21, 21, 18>>, <<21, 21, 21, 18, 20>>,
     <<20, 20, 20, 20, 20>>, <<14, 14, 14, 14, 20, 18>>}

\* hist['Volume'].tolist() of n bars, flat or with a spike on the latest bar
Volumes(n, spike) ==
    [j \in 1..n |-> IF spike /\ j = n THEN Flt(8000000) ELSE Flt(2000000)]

\* Series.mean(): the mean of the values that are not NaN, NaN if there is none
Mean(column) ==
    LET values == SelectSeq(column, LAMBDA x : ~IsNaN(x))
    IN  IF values = <<>> THEN NaN ELSE FDiv(Sum(values), Flt(Len(values)))

\* the record fetch_stock_data builds: the average volume is the mean of the
\* volumes (fewer than AVG_VOLUME_DAYS bars)
FetchedRecord(ph, spike) ==
    LET volume == Volumes(Len(ph), spike)
    IN  [price_history |-> ph,
         volume_history |-> volume,
         avg_volume_20d |-> Mean(volume)]

ListRecords == {FetchedRecord(ph, spike) : ph \in ListSeries, spike \in BOOLEAN}

\* the frame of a call that has not started
NewFrame(sd) ==
    [at |-> "start", loaded |-> sd, price_changes |-> None, result |-> None]

\* variant: every position of the list holds the one updated dictionary
SetStock_Shared(u, i, sd) == [j \in DOMAIN u |-> sd]

\* the dictionary at position i of the list is replaced by its updated value
SetStock(u, i, sd) == [u EXCEPT ![i] = sd]

InitList ==
    /\ \E n \in 1..NStocks : filtered_data \in [1..n -> ListRecords]
    /\ frames = [i \in DOMAIN filtered_data |-> NewFrame(filtered_data[i])]
    /\ stock_data = None
    /\ price_changes = None
    /\ verdicts = NoVerdicts
    /\ classification = None
    /\ phase = "list"
    /\ run = None
    /\ universe_cache_file = None

\* classify_stock(stock), lines 193-197: the features of the record's series
CalcFeatures(i) ==
    /\ frames[i].at = "start"
    /\ \E pc \in {calculate_price_changes(filtered_data[i].price_history)} :
           frames' = [frames EXCEPT ![i].price_changes = pc,
                                    ![i].at = IF pc = None THEN "returned"
                                              ELSE "computed"]
    /\ UNCHANGED <<filtered_data, stock_data, price_changes, verdicts,
                   classification, phase,
                   run, universe_cache_file>>

\* classify_stock(stock), line 200: stock_data.update(price_changes)
Enrich(i) ==
    /\ frames[i].at = "computed"
    /\ filtered_data' = SetStock(filtered_data, i,
                                 Update(filtered_data[i], frames[i].price_changes))
    /\ frames' = [frames EXCEPT ![i].at = "enriched"]
    /\ UNCHANGED <<stock_data, price_changes, verdicts, classification, phase,
                   run, universe_cache_file>>

\* classify_stock(stock), lines 203-230: the classifiers and the arbitration
Classify(i) ==
    /\ frames[i].at = "enriched"
    /\ LET sd == filtered_data[i]
           pc == frames[i].price_changes
           trend == classify_strong_trend(sd, pc)
           panic == classify_panic(sd, pc)
       IN  frames' =
               IF panic.st = "raised"
               THEN [frames EXCEPT ![i].at = "raised", ![i].result = panic]
               ELSE [frames EXCEPT
                        ![i].at = "returned",
                        ![i].result = Arbitrate(trend, panic,
                                                classify_euphoria(sd, pc))]
    /\ UNCHANGED <<filtered_data, stock_data, price_changes, verdicts,
                   classification, phase,
                   run, universe_cache_file>>

NextList ==
    \E i \in DOMAIN frames : CalcFeatures(i) \/ Enrich(i) \/ Classify(i)

SpecList == InitList /\ [][NextList]_vars

----------------------------------------------------------------------------
(* SpecMain: data_loader.py, filters.py and the programs main.py,          *)
(* main_full.py and prepare_universe.py                                    *)

\* the symbols the exchanges list, in sorted order
TickerNames == <<"AAA", "BBB", "CCC", "DDD">>

Tickers == {TickerNames[i] : i \in 1..NTickers}

\* the lists get_all_us_stocks and get_top_tickers can return: sorted, without
\* duplicates, and empty when every source fails
TickerLists ==
    {SelectSeq(SubSeq(TickerNames, 1, NTickers), LAMBDA t : t \in S) :
        S \in SUBSET Tickers}

\* the ticker universe cache file: absent, or its lines
NoFile == [exists |-> FALSE, lines |-> <<>>]

\* save_ticker_list: one line for each ticker; an empty list leaves an empty file
save_ticker_list(tickers) == [exists |-> TRUE, lines |-> tickers]

\* load_ticker_list: the stripped lines of the file that are not empty
load_ticker_list(file) == SelectSeq(file.lines, LAMBDA line : line # "")

\* what Yahoo answers for a ticker: the Close and Volume columns of the
\* history and the info dictionary
Answer(closes, volume, info) == [Close |-> closes, Volume |-> volume, info |-> info]

Flat(n, v) == [j \in 1..n |-> Flt(v)]

YahooAnswers ==
    {\* a strong trend, liquid
     Answer(<<14, 14, 18, 20, 21>>, Flat(5, 2000000), [marketCap |-> 1000000000]),
     \* a panic with a volume spike, market cap exactly at the minimum
     Answer(<<21, 21, 21, 21, 18>>, Volumes(5, TRUE), [marketCap |-> 500000000]),
     \* a euphoria, dollar volume exactly at the minimum, market cap from shares
     Answer(<<21, 21, 21, 18, 20>>, Flat(5, 1000000), [sharesOutstanding |-> 50000000]),
     \* no pattern, price exactly at the minimum
     Answer(<<3, 3, 3, 3, 3>>, Flat(5, 7000000), [marketCap |-> 1000000000]),
     \* market cap one dollar below the minimum
     Answer(<<14, 14, 14, 14, 20, 18>>, Flat(6, 2000000), [marketCap |-> 499999999]),
     \* price below the minimum
     Answer(<<2, 2, 2, 2, 2>>, Flat(5, 20000000), [marketCap |-> 1000000000]),
     \* dollar volume below the minimum
     Answer(<<20, 20, 20, 20, 18>>, Flat(5, 1000), [marketCap |-> 1000000000]),
     \* no volume reported
     Answer(<<20, 20, 20, 20, 18>>, [j \in 1..5 |-> NaN], [marketCap |-> 1000000000]),
     \* 4 bars only
     Answer(<<21, 20, 18, 14>>, Flat(4, 2000000), [marketCap |-> 1000000000]),
     \* neither market cap nor shares
     Answer(<<14, 14, 18, 20, 21>>, Flat(5, 2000000), <<>>),
     \* no history at all
     Answer(<<>>, <<>>, <<>>)}

\* hist['Volume'].tail(n)
TailOf(column, n) ==
    IF Len(column) <= n THEN column
    ELSE SubSeq(column, Len(column) - n + 1, Len(column))

\* fetch_stock_data on the answer of Yahoo: the stock record, or None
fetch_stock_data(ticker, hist) ==
    IF Len(hist.Close) < 5 THEN None
    ELSE LET info == hist.info
             current_price == Flt(ILoc(hist.Close, 1))
             previous_close == Flt(ILoc(hist.Close, 2))
             has_market_cap ==
                 \/ "marketCap" \in DOMAIN info
                 \/ /\ "sharesOutstanding" \in DOMAIN info
                    /\ info.sharesOutstanding # 0
                    /\ current_price # Flt(0)
             market_cap ==
                 IF "marketCap" \in DOMAIN info THEN Flt(info.marketCap)
                 ELSE FMul(Flt(info.sharesOutstanding), current_price)
             avg_volume_20d ==
                 IF Len(hist.Volume) >= AVG_VOLUME_DAYS
                 THEN Mean(TailOf(hist.Volume, AVG_VOLUME_DAYS))
                 ELSE Mean(hist.Volume)
         IN  IF ~has_market_cap THEN None
             ELSE [ticker |-> ticker,
                   current_price |-> current_price,
                   previous_close |-> IF previous_close # Flt(0) THEN previous_close
                                      ELSE current_price,
                   market_cap |-> market_cap,
                   avg_volume_20d |-> avg_volume_20d,
                   price_history |-> hist.Close,
                   volume_history |-> hist.Volume]

\* load_stocks_data: the records of the tickers whose fetch gave one, in order
load_stocks_data(tickers, answers) ==
    LET data == [i \in 1..Len(tickers) |-> fetch_stock_data(tickers[i], answers[i])]
    IN  SelectSeq(data, LAMBDA d : d # None)

\* the three tests of filter_universe on one stock: a stock is dropped when
\* a value is below its minimum
PassesFilters(stock) ==
    LET market_cap == stock.market_cap
        price == stock.current_price
        avg_volume == stock.avg_volume_20d
        avg_dollar_volume == FMul(price, avg_volume)
    IN  /\ ~FLt(market_cap, Flt(MIN_MARKET_CAP))
        /\ ~FLt(price, Flt(MIN_PRICE))
        /\ ~FLt(avg_dollar_volume, Flt(MIN_AVG_VOLUME))

\* filter_universe: a new list of the dictionaries that pass, in input order.
\* The list holds the dictionaries of the input themselves: it is modelled as
\* the list of their positions in stock_data_list.
filter_universe(stock_data_list) ==
    SelectSeq([i \in 1..Len(stock_data_list) |-> i],
              LAMBDA i : PassesFilters(stock_data_list[i]))

NoResults == [strong_trend |-> <<>>, panic |-> <<>>, euphoria |-> <<>>]

\* the row main builds for a classified stock; main_full adds the market cap
ResultRow(program, stock, verdict) ==
    LET row == [ticker |-> stock.ticker,
                price |-> stock.current_price,
                change_1d |-> IF "change_1d" \in DOMAIN stock
                              THEN stock.change_1d ELSE Flt(0),
                change_3d |-> IF "change_3d" \in DOMAIN stock
                              THEN stock.change_3d ELSE Flt(0),
                change_5d |-> IF "change_5d" \in DOMAIN stock
                              THEN stock.change_5d ELSE Flt(0),
                reason |-> verdict.reason]
    IN  IF program = "main_full"
        THEN Update(row, [market_cap |-> stock.market_cap])
        ELSE row

\* variant: every row goes into the first bucket
AddResult_FirstBucket(results, program, stock, verdict) ==
    IF verdict # None
    THEN [results EXCEPT !["strong_trend"] =
             Append(@, ResultRow(program, stock, verdict))]
    ELSE results

\* if verdict: results[strategy].append({...})
AddResult(results, program, stock, verdict) ==
    IF verdict # None
    THEN [results EXCEPT ![verdict.strategy] =
             Append(@, ResultRow(program, stock, verdict))]
    ELSE results

\* the output save_results writes; the one of main_full has the statistics
ScanOutput(program, results, stats) ==
    LET output ==
            [results |-> results,
             summary |->
                 [strong_trend_count |-> Len(results.strong_trend),
                  panic_count |-> Len(results.panic),
                  euphoria_count |-> Len(results.euphoria),
                  total_classified |-> Len(results.strong_trend) + Len(results.panic)
                                           + Len(results.euphoria)]]
    IN  IF program = "main_full"
        THEN Update(output, [statistics |-> stats])
        ELSE output

\* the frame of a program that has just been started
NewRun(program) ==
    [program |-> program, at |-> "start", tickers |-> <<>>, all_data |-> <<>>,
     filtered_data |-> <<>>, classified |-> 0, results |-> NoResults,
     cache_saved |-> FALSE, scan |-> None]

\* main_full: if not tickers: return
AfterTickers(program, tickers) ==
    IF program = "main_full" /\ tickers = <<>> THEN "exit" ELSE "tickers"

\* variant: an empty filter result is taken into the classification
AfterFilter_GoOn(filtered) == "classify"

\* if not filtered_data: return
AfterFilter(filtered) == IF filtered = <<>> THEN "exit" ELSE "classify"

InitMain ==
    /\ run = [NewRun("none") EXCEPT !.at = "exit"]
    /\ universe_cache_file = NoFile
    /\ stock_data = None
    /\ price_changes = None
    /\ verdicts = NoVerdicts
    /\ classification = None
    /\ phase = "programs"
    /\ filtered_data = <<>>
    /\ frames = <<>>

core == <<stock_data, price_changes, verdicts, classification, phase,
          filtered_data, frames>>

\* a program is started when none is running
StartProgram ==
    /\ run.at \in {"exit", "saved", "crashed"}
    /\ \E program \in {"main", "main_full", "prepare_universe"} :
           run' = NewRun(program)
    /\ UNCHANGED <<core, universe_cache_file>>

\* main, step 1: tickers = get_top_tickers(config.TOP_N_STOCKS)
LoadTickers ==
    /\ run.program = "main"
    /\ run.at = "start"
    /\ \E tickers \in TickerLists :
           run' = [run EXCEPT !.tickers = tickers,
                              !.at = AfterTickers(run.program, tickers)]
    /\ UNCHANGED <<core, universe_cache_file>>

\* main_full, step 1: the tickers of the cache file if there is one, else a
\* fresh list, which is saved; the run ends on an empty list
LoadUniverse ==
    /\ run.program = "main_full"
    /\ run.at = "start"
    /\ IF USE_CACHED_UNIVERSE /\ universe_cache_file.exists
       THEN /\ run' = [run EXCEPT
                          !.tickers = load_ticker_list(universe_cache_file),
                          !.at = AfterTickers(run.program,
                                              load_ticker_list(universe_cache_file))]
            /\ UNCHANGED universe_cache_file
       ELSE \E tickers \in TickerLists :
                /\ run' = [run EXCEPT !.tickers = tickers,
                                      !.at = AfterTickers(run.program, tickers)]
                /\ universe_cache_file' = save_ticker_list(tickers)
    /\ UNCHANGED core

\* prepare_universe: keep the cache file if the user says so; else fetch a
\* fresh list and save it unless it is empty
PrepareUniverse ==
    /\ run.program = "prepare_universe"
    /\ run.at = "start"
    /\ \E response \in {"y", "n"}, tickers \in TickerLists :
           IF universe_cache_file.exists /\ response # "y"
           THEN /\ run' = [run EXCEPT !.at = "exit"]
                /\ UNCHANGED universe_cache_file
           ELSE IF tickers = <<>>
           THEN /\ run' = [run EXCEPT !.at = "exit"]
                /\ UNCHANGED universe_cache_file
           ELSE /\ run' = [run EXCEPT !.tickers = tickers, !.at = "exit"]
                /\ universe_cache_file' = save_ticker_list(tickers)
    /\ UNCHANGED core

\* step 2: all_data = load_stocks_data(tickers); the run ends on no data
FetchData ==
    /\ run.at = "tickers"
    /\ \E answers \in [1..Len(run.tickers) -> YahooAnswers] :
           \E all_data \in {load_stocks_data(run.tickers, answers)} :
               run' = [run EXCEPT !.all_data = all_data,
                                  !.at = IF all_data = <<>> THEN "exit"
                                         ELSE "fetched"]
    /\ UNCHANGED <<core, universe_cache_file>>

\* save_cache(all_data, timestamp)
SaveCache ==
    /\ run.at = "fetched"
    /\ run' = [run EXCEPT !.cache_saved = TRUE, !.at = "cached"]
    /\ UNCHANGED <<core, universe_cache_file>>

\* step 3: filtered_data = filter_universe(all_data); the run ends on no stock
FilterUniverse ==
    /\ run.at = "cached"
    /\ \E filtered \in {filter_universe(run.all_data)} :
           run' = [run EXCEPT !.filtered_data = filtered,
                              !.at = AfterFilter(filtered)]
    /\ UNCHANGED <<core, universe_cache_file>>

\* step 4, one turn of the loop: classify the next stock, which updates its
\* dictionary, and append its row; an exception ends the program
ClassifyNext ==
    /\ run.at = "classify"
    /\ run.classified < Len(run.filtered_data)
    /\ LET k == run.classified + 1
           i == run.filtered_data[k]
       IN  \E r \in {classify_stock(run.all_data[i])} :
               IF r.result # None /\ "st" \in DOMAIN r.result
               THEN run' = [run EXCEPT !.all_data[i] = r.stock_data,
                                       !.at = "crashed"]
               ELSE run' = [run EXCEPT
                               !.all_data[i] = r.stock_data,
                               !.classified = k,
                               !.results = AddResult(run.results, run.program,
                                                     r.stock_data, r.result)]
    /\ UNCHANGED <<core, universe_cache_file>>

\* step 5: print_results(results), after the last turn of the loop
PrintResults ==
    /\ run.at = "classify"
    /\ run.classified = Len(run.filtered_data)
    /\ run' = [run EXCEPT !.at = "printed"]
    /\ UNCHANGED <<core, universe_cache_file>>

\* step 6: save_results(results, timestamp) or, in main_full,
\* save_results(results, timestamp, stats)
SaveResults ==
    /\ run.at = "printed"
    /\ LET stats == [initial_tickers |-> Len(run.tickers),
                     data_fetched |-> Len(run.all_data),
                     passed_filters |-> Len(run.filtered_data)]
       IN  run' = [run EXCEPT
                      !.scan = ScanOutput(run.program, run.results, stats),
                      !.at = "saved"]
    /\ UNCHANGED <<core, universe_cache_file>>

NextMain ==
    \/ StartProgram
    \/ LoadTickers
    \/ LoadUniverse
    \/ PrepareUniverse
    \/ FetchData
    \/ SaveCache
    \/ FilterUniverse
    \/ ClassifyNext
    \/ PrintResults
    \/ SaveResults

SpecMain == InitMain /\ [][NextMain]_vars

----------------------------------------------------------------------------
(* Properties *)

\* a call of classify_stock, or the arbitration of three verdicts, is over
Arbitrated == phase \in {"classified", "arbitrated"}

\* the three classifiers ran and each returned a (bool, reason) pair
AllReturned == \A k \in DOMAIN verdicts : verdicts[k].st = "returned"

\* C1: whenever the panic rule and the euphoria rule both fired, the final
\* label is none, whether or not the strong-trend rule fired as well
C1_NoiseSuppressed ==
    (Arbitrated /\ verdicts.panic.fired /\ verdicts.euphoria.fired)
        => classification = None

\* all three rules fired and the label is none
C1_Witness ==
    /\ phase = "arbitrated"
    /\ verdicts.trend.fired /\ verdicts.panic.fired /\ verdicts.euphoria.fired
    /\ classification = None

\* panic and euphoria both fired on the features of a price series
C1_WitnessSeries ==
    /\ phase = "classified"
    /\ verdicts.panic.fired /\ verdicts.euphoria.fired
    /\ classification = None

C3_ShortSeriesNone ==
    (phase = "classified" /\ Len(stock_data.price_history) < 2)
        => /\ price_changes = None
           /\ classification = None
           /\ verdicts = NoVerdicts

\* classify_stock was called on a series of one bar
C3_Witness ==
    /\ phase = "classified"
    /\ Len(stock_data.price_history) = 1
    /\ classification = None

\* the 1-day and the 3-day condition of the panic rule
Drop1Day == FLe(price_changes.change_1d, FNeg(Flt(PANIC_1DAY_DROP)))
Drop3Day == FLe(price_changes.change_3d, FNeg(Flt(PANIC_3DAY_DROP)))

\* C4: whenever change_1d <= -PANIC_1DAY_DROP and classify_panic returns, it
\* returns true, whatever the volume history and the average volume are
C4_DropAlwaysPanic ==
    (verdicts.panic.st = "returned" /\ Drop1Day) => verdicts.panic.fired

\* the number of bars of the record
Bars == Len(stock_data.price_history)

\* a call of classify_stock that computed a feature set is over
HasFeatures == phase = "classified" /\ price_changes # None

C6_NoClassifierRaises == \A k \in DOMAIN verdicts : verdicts[k].st # "raised"

\* every number of a feature set is finite
FiniteFeatures(pc) ==
    /\ IsFinite(pc.change_1d)
    /\ IsFinite(pc.change_3d)
    /\ IsFinite(pc.change_5d)
    /\ IsFinite(pc.avg_daily_change_5d)
    /\ \A j \in DOMAIN pc.daily_changes : IsFinite(pc.daily_changes[j])

\* C7: a zero close used as a divisor puts no infinite and no not-a-number
\* value into the feature set
C7_ZeroDivisorGuarded == HasFeatures => FiniteFeatures(price_changes)

\* the series has a zero or a negative close
Malformed == \E i \in 1..Bars : stock_data.price_history[i] <= 0

\* C8: for a series with a zero or a negative close classify_stock returns
\* none, never strong_trend, panic or euphoria
C8_MalformedSeriesNone ==
    (phase = "classified" /\ Malformed) => "strategy" \notin DOMAIN classification

\* C9: classify_strong_trend returns true exactly when the consecutive-gain
\* flag is set, or change_3d >= STRONG_TREND_3DAY_TOTAL and change_1d > 0
C9_StrongTrendIff ==
    verdicts.trend.st # "not_run"
        => /\ verdicts.trend.st = "returned"
           /\ verdicts.trend.fired
                <=> \/ price_changes.change_3d_consecutive
                    \/ /\ FGe(price_changes.change_3d, Flt(STRONG_TREND_3DAY_TOTAL))
                       /\ FGt(price_changes.change_1d, Flt(0))

\* change_3d is exactly 15.0 with a positive change_1d, no consecutive gain:
\* a strong trend
C9_Witness ==
    /\ verdicts.trend.st = "returned"
    /\ verdicts.trend.fired
    /\ ~price_changes.change_3d_consecutive
    /\ price_changes.change_3d = Flt(15)
    /\ price_changes.change_1d = Rat(1, 10)

\* the reasons of the 1-day branch of classify_panic
Drop1DayReasons ==
    {"{:.1f}% drop in 1 day", "{:.1f}% drop in 1 day with {:.1f}x volume spike"}

\* C10: classify_panic returns true exactly when change_1d <= -PANIC_1DAY_DROP
\* or change_3d <= -PANIC_3DAY_DROP, and with the 1-day reason when both hold
C10_PanicIff ==
    verdicts.panic.st = "returned"
        => /\ verdicts.panic.fired <=> (Drop1Day \/ Drop3Day)
           /\ (Drop1Day /\ Drop3Day) => verdicts.panic.reason[1] \in Drop1DayReasons

\* the 1-day and the 5-day condition of the euphoria rule
Gain1Day == FGe(price_changes.change_1d, Flt(EUPHORIA_1DAY_GAIN))
Gain5Day == FGe(price_changes.change_5d, Flt(EUPHORIA_5DAY_GAIN))

\* the reasons of the 1-day branch of classify_euphoria
PlainGainReason == "{:.1f}% gain in 1 day"
AccelGainReason == "{:.1f}% gain in 1 day with acceleration (avg: {:.1f}%)"

\* C11: classify_euphoria returns true exactly when change_1d >=
\* EUPHORIA_1DAY_GAIN or change_5d >= EUPHORIA_5DAY_GAIN, and with a 1-day
\* reason when both hold
C11_EuphoriaIff ==
    verdicts.euphoria.st # "not_run"
        => /\ verdicts.euphoria.st = "returned"
           /\ verdicts.euphoria.fired <=> (Gain1Day \/ Gain5Day)
           /\ (Gain1Day /\ Gain5Day)
                => verdicts.euphoria.reason[1] \in {PlainGainReason, AccelGainReason}

\* change_1d is exactly 8.0 and change_5d exactly 20.0: euphoria, 1-day reason
C11_Witness ==
    /\ verdicts.euphoria.st = "returned"
    /\ verdicts.euphoria.fired
    /\ price_changes.change_1d = Flt(8)
    /\ price_changes.change_5d = Flt(20)
    /\ verdicts.euphoria.reason[1] \in {PlainGainReason, AccelGainReason}

\* classify_stock has run on the record at least once
Classified == phase \in {"classified", "reclassified"}

\* close a is a gain of at least 5% on close b, in integers:
\* (a / b) - 1 >= 0.05, with a / 0 = +inf for a > 0
GainAtLeast5(a, b) ==
    IF b > 0 THEN 100 * a >= 105 * b
    ELSE IF b = 0 THEN a > 0
    ELSE 100 * a <= 105 * b

\* each of the three latest day-over-day gains of the series is at least 5%
ThreeGains ==
    /\ Bars >= 4
    /\ \A k \in 1..3 :
           GainAtLeast5(stock_data.price_history[Bars + 1 - k],
                        stock_data.price_history[Bars - k])

ConsecutiveReason ==
    <<"3 consecutive days with {}%+ gains each", Flt(STRONG_TREND_MIN_GAIN)>>

\* C12: a series whose three latest day-over-day gains each reach the daily
\* threshold is classified strong_trend with the consecutive-days reason,
\* also when the 3-day total branch holds as well
C12_ConsecutiveReasonWins ==
    (Classified /\ ThreeGains)
        => classification = Verdict("strong_trend", ConsecutiveReason)

\* three gains of 5% or more, and the 3-day total branch holds too
C12_Witness ==
    /\ Classified
    /\ ThreeGains
    /\ FGe(price_changes.change_3d, Flt(STRONG_TREND_3DAY_TOTAL))
    /\ FGt(price_changes.change_1d, Flt(0))
    /\ classification = Verdict("strong_trend", ConsecutiveReason)

\* C15: change_3d_consecutive is true exactly when the series has 4 bars or
\* more and each of the three day-over-day returns over the 4 latest closes
\* is >= STRONG_TREND_MIN_GAIN / 100; it is false for 2 or 3 bars
C15_ConsecutiveFlagIff ==
    (Classified /\ Bars >= 2)
        => (price_changes.change_3d_consecutive <=> ThreeGains)

\* the flag is set on a series whose latest gain is 5% exactly (20 to 21)
C15_Witness ==
    /\ Classified
    /\ Bars >= 4
    /\ price_changes.change_3d_consecutive
    /\ 100 * stock_data.price_history[Bars]
           = 105 * stock_data.price_history[Bars - 1]

\* ((a / b) - 1) * 100 as one fraction; a / 0 is +inf, -inf or NaN
PctOf(a, b) ==
    IF b # 0 THEN Rat(100 * (a - b), b)
    ELSE IF a > 0 THEN PosInf
    ELSE IF a < 0 THEN NegInf
    ELSE NaN

\* the latest close against the close n bars before it
ChangeOver(n) ==
    PctOf(stock_data.price_history[Bars], stock_data.price_history[Bars - n])

\* C16: for N in {1, 3, 5} and a series of N+1 bars or more, change_Nd is
\* ((latest close / close N bars before the latest) - 1) * 100
C16_ChangeWindows ==
    (Classified /\ Bars >= 2)
        => /\ price_changes.change_1d = ChangeOver(1)
           /\ Bars >= 4 => price_changes.change_3d = ChangeOver(3)
           /\ Bars >= 6 => price_changes.change_5d = ChangeOver(5)

\* 6 bars or more, and the closes at positions -N and -(N+1) differ
C16_Witness ==
    /\ Classified
    /\ Bars >= 6
    /\ \A n \in {1, 3, 5} :
           /\ stock_data.price_history[Bars - n]
                  # stock_data.price_history[Bars + 1 - n]
           /\ stock_data.price_history[Bars - n] # stock_data.price_history[Bars]
    /\ price_changes.change_3d = ChangeOver(3)
    /\ price_changes.change_5d = ChangeOver(5)

\* C17: with 6 bars or more daily_changes holds the 5 latest day-over-day
\* percentage returns, oldest first, and avg_daily_change_5d is their mean;
\* with 2 to 5 bars daily_changes is empty and avg_daily_change_5d is 0
C17_DailyChanges ==
    (Classified /\ Bars >= 2)
        => IF Bars >= 6
           THEN /\ price_changes.daily_changes
                       = [j \in 1..5 |->
                              PctOf(stock_data.price_history[Bars - 5 + j],
                                    stock_data.price_history[Bars - 6 + j])]
                /\ price_changes.avg_daily_change_5d
                       = FDiv(Sum(price_changes.daily_changes), Flt(5))
           ELSE /\ price_changes.daily_changes = <<>>
                /\ price_changes.avg_daily_change_5d = Flt(0)

\* 6 bars or more, the oldest and the newest daily change differ
C17_Witness ==
    /\ Classified
    /\ Bars >= 6
    /\ Len(price_changes.daily_changes) = 5
    /\ price_changes.daily_changes[1] # price_changes.daily_changes[5]
    /\ price_changes.daily_changes[5] = ChangeOver(1)
    /\ price_changes.avg_daily_change_5d # Flt(0)

\* the latest volume of the record against its average volume
LatestVolume == stock_data.volume_history[Len(stock_data.volume_history)]
VolumeSpike ==
    FGt(LatestVolume, FMul(stock_data.avg_volume_20d, PANIC_VOLUME_MULTIPLIER))

\* C13: on a 1-day drop of a record with a volume history, classify_panic
\* returns true, and its reason carries the ratio latest volume / average
\* volume exactly when latest volume > average volume * PANIC_VOLUME_MULTIPLIER
C13_VolumeSpikeRatio ==
    (/\ verdicts.panic.st # "not_run"
     /\ Drop1Day
     /\ Len(stock_data.volume_history) > 0)
        => /\ verdicts.panic.st = "returned"
           /\ verdicts.panic.fired
           /\ verdicts.panic.reason
                  = IF VolumeSpike
                    THEN <<"{:.1f}% drop in 1 day with {:.1f}x volume spike",
                           Fmt1(FAbs(price_changes.change_1d)),
                           Fmt1(FDiv(LatestVolume, stock_data.avg_volume_20d))>>
                    ELSE <<"{:.1f}% drop in 1 day",
                           Fmt1(FAbs(price_changes.change_1d))>>

\* C14: when euphoria fires on the 1-day condition, the reason notes the
\* acceleration exactly when avg_daily_change_5d > 0 and change_1d >
\* avg_daily_change_5d; otherwise, and for every series of fewer than 6 bars,
\* it is the plain 1-day reason
C14_AccelerationIff ==
    (verdicts.euphoria.st = "returned" /\ Gain1Day)
        => /\ verdicts.euphoria.fired
           /\ verdicts.euphoria.reason
                  = IF /\ FGt(price_changes.avg_daily_change_5d, Flt(0))
                       /\ FGt(price_changes.change_1d,
                              price_changes.avg_daily_change_5d)
                    THEN <<AccelGainReason, Fmt1(price_changes.change_1d),
                           Fmt1(price_changes.avg_daily_change_5d)>>
                    ELSE <<PlainGainReason, Fmt1(price_changes.change_1d)>>
           /\ (Classified /\ Bars < 6)
                => verdicts.euphoria.reason[1] = PlainGainReason

\* a series of 6 bars whose latest gain exceeds the positive 5-day average
C14_Witness ==
    /\ Classified
    /\ Bars >= 6
    /\ verdicts.euphoria.st = "returned"
    /\ Gain1Day
    /\ FGt(price_changes.avg_daily_change_5d, Flt(0))
    /\ verdicts.euphoria.reason[1] = AccelGainReason

\* C18: a second call of classify_stock on the same record returns the
\* verdict of the first call, category and reason
C18_SecondCallSameVerdict ==
    [][Classified => classification' = classification]_vars

\* classify_stock has been called again on a record that has a verdict
C18_Witness ==
    /\ phase = "reclassified"
    /\ "strategy" \in DOMAIN classification
    /\ "change_1d" \in DOMAIN stock_data

\* the keys stock_data.update(price_changes) writes
FeatureKeys ==
    {"change_1d", "change_3d", "change_5d", "change_3d_consecutive",
     "daily_changes", "avg_daily_change_5d"}

\* C19 as stated: a call of classify_stock leaves the record as it was, the
\* same keys with the same values
C19_InputUnchanged == [][stock_data' = stock_data]_vars

\* C19, amended: a call of classify_stock leaves a record of fewer than 2
\* bars as it was; on any other record it writes the six feature keys, with
\* the computed features, and leaves every other key and value as it was
C19_OnlyFeatureKeysWritten ==
    [][IF Len(stock_data.price_history) < 2
       THEN stock_data' = stock_data
       ELSE /\ DOMAIN stock_data' = DOMAIN stock_data \cup FeatureKeys
            /\ \A k \in DOMAIN stock_data \ FeatureKeys :
                   stock_data'[k] = stock_data[k]
            /\ \A k \in FeatureKeys : stock_data'[k] = price_changes'[k]]_vars

\* the record of a classified series carries the features next to its own keys
C19_Witness ==
    /\ phase = "classified"
    /\ price_changes # None
    /\ FeatureKeys \subseteq DOMAIN stock_data
    /\ stock_data.change_1d = price_changes.change_1d
    /\ Len(stock_data.price_history) >= 2

\* C20: in every order and interleaving of the calls, the verdict of a stock
\* is the verdict of classify_stock on that stock's record alone, and a
\* record is written by its own call only
C20_VerdictOfOwnRecord ==
    \A i \in DOMAIN frames :
        /\ frames[i].at \in {"returned", "raised"}
               => frames[i].result = classify_stock(frames[i].loaded).result
        /\ filtered_data[i] =
               IF frames[i].at \in {"start", "computed"} \/ frames[i].price_changes = None
               THEN frames[i].loaded
               ELSE Update(frames[i].loaded,
                           calculate_price_changes(frames[i].loaded.price_history))

\* two records with different verdicts, the second classified while the call
\* for the first is between its update and its classifiers
C20_Witness ==
    /\ Len(frames) = 2
    /\ frames[1].at = "enriched"
    /\ frames[2].at = "returned"
    /\ frames[2].result # None
    /\ classify_stock(frames[1].loaded).result # frames[2].result

\* C24: on the features of a series of positive closes the strong-trend rule
\* and the panic rule never fire together, so a strong trend that fires is
\* the verdict of classify_stock
C24_TrendNeverWithPanic ==
    (Classified /\ price_changes # None /\ ~Malformed /\ verdicts.trend.fired)
        => /\ verdicts.panic.st = "returned"
           /\ ~verdicts.panic.fired
           /\ classification = Verdict("strong_trend", verdicts.trend.reason)

\* a strong trend on positive closes that is also a euphoria
C24_Witness ==
    /\ Classified
    /\ price_changes # None
    /\ ~Malformed
    /\ verdicts.trend.fired
    /\ verdicts.euphoria.fired
    /\ classification = Verdict("strong_trend", verdicts.trend.reason)

\* C25: a window without history gives no signal: with 2 or 3 bars the
\* strong-trend rule and the 3-day panic condition do not fire, with 2 to 5
\* bars the 5-day euphoria condition does not fire, and such a series is
\* labelled panic or euphoria through its 1-day change only
C25_ShortWindowNoSignal ==
    (Classified /\ Bars >= 2)
        => /\ Bars <= 3
                => /\ ~verdicts.trend.fired
                   /\ ~Drop3Day
                   /\ verdicts.panic.fired
                          => verdicts.panic.reason[1] \in Drop1DayReasons
                   /\ "strategy" \in DOMAIN classification
                          => /\ classification.strategy \in {"panic", "euphoria"}
                             /\ classification.reason[1] \in
                                    Drop1DayReasons
                                        \cup {PlainGainReason, AccelGainReason}
           /\ Bars <= 5
                => /\ ~Gain5Day
                   /\ verdicts.euphoria.fired
                          => verdicts.euphoria.reason[1]
                                 \in {PlainGainReason, AccelGainReason}

\* a series of 3 bars whose 1-day drop would pass the 3-day threshold as well
C25_Witness ==
    /\ Classified
    /\ Bars = 3
    /\ FLe(price_changes.change_1d, FNeg(Flt(PANIC_3DAY_DROP)))
    /\ price_changes.change_3d = Flt(0)
    /\ "strategy" \in DOMAIN classification
    /\ classification.strategy = "panic"

----------------------------------------------------------------------------
(* Properties of SpecMain *)

Scanning == run.program \in {"main", "main_full"}

Buckets == {"strong_trend", "panic", "euphoria"}

\* the category classify_stock gives a stock, "none" when it gives None
CategoryOf(stock) ==
    LET verdict == classify_stock(stock).result
    IN  IF verdict # None /\ "strategy" \in DOMAIN verdict
        THEN verdict.strategy ELSE "none"

\* how many rows of a bucket carry the ticker
RowsOf(ticker, rows) == Cardinality({j \in 1..Len(rows) : rows[j].ticker = ticker})

\* C21: in the report of main and main_full a filtered stock that has been
\* classified has exactly one row in the bucket of its category and none in
\* the two others, a stock without category and a stock not yet classified
\* have no row at all, every row is the row of a filtered stock, and the
\* total the results file records is the sum of the three bucket sizes
C21_OneBucketPerStock ==
    Scanning =>
        /\ \A k \in 1..Len(run.filtered_data) :
               LET stock == run.all_data[run.filtered_data[k]]
               IN  \A s \in Buckets :
                       RowsOf(stock.ticker, run.results[s]) =
                           IF k <= run.classified /\ CategoryOf(stock) = s
                           THEN 1 ELSE 0
        /\ \A s \in Buckets : \A j \in 1..Len(run.results[s]) :
               \E k \in 1..run.classified :
                   run.all_data[run.filtered_data[k]].ticker
                       = run.results[s][j].ticker
        /\ run.scan # None =>
               /\ run.scan.results = run.results
               /\ run.scan.summary.total_classified =
                      Len(run.results.strong_trend) + Len(run.results.panic)
                          + Len(run.results.euphoria)
               /\ run.scan.summary.strong_trend_count = Len(run.results.strong_trend)
               /\ run.scan.summary.panic_count = Len(run.results.panic)
               /\ run.scan.summary.euphoria_count = Len(run.results.euphoria)

\* a saved report of two stocks in two different buckets
C21_Witness ==
    /\ Scanning
    /\ run.at = "saved"
    /\ Len(run.filtered_data) = 2
    /\ Len(run.results.panic) = 1
    /\ Len(run.results.euphoria) = 1
    /\ run.scan.summary.total_classified = 2

\* the stages of a run in their order; a run that has ended early is at "exit"
StageOrder == <<"start", "tickers", "fetched", "cached", "classify", "printed", "saved">>

StageRank(at) == CHOOSE n \in 1..Len(StageOrder) : StageOrder[n] = at

\* nothing of the classification and of the results file is there
NothingClassified ==
    /\ run.classified = 0
    /\ run.results = NoResults
    /\ run.scan = None

\* one step of a run of main: the next stage, one more turn of the classify
\* loop, or the early end after an empty fetch or an empty filter result
MainStep ==
    \/ /\ run'.at \in {"tickers", "fetched", "cached", "classify", "printed", "saved"}
       /\ StageRank(run'.at) = StageRank(run.at) + 1
       /\ run.at = "classify" => run.classified = Len(run.filtered_data)
       /\ run'.at = "fetched" => run'.all_data # <<>>
       /\ run'.at = "classify" => run'.filtered_data # <<>>
       /\ run'.cache_saved = (StageRank(run'.at) >= StageRank("cached"))
       /\ (run'.scan # None) = (run'.at = "saved")
       /\ run'.classified = run.classified
    \/ /\ run.at = "classify"
       /\ run'.at = "classify"
       /\ run.classified < Len(run.filtered_data)
       /\ run'.classified = run.classified + 1
       /\ run'.scan = None
    \/ /\ run.at = "tickers"
       /\ run'.at = "exit"
       /\ run'.all_data = <<>>
       /\ ~run'.cache_saved
       /\ NothingClassified'
    \/ /\ run.at = "cached"
       /\ run'.at = "exit"
       /\ run'.all_data # <<>>
       /\ run'.filtered_data = <<>>
       /\ NothingClassified'

\* C22: a run of main goes through load tickers, fetch, save cache, filter,
\* classify, print and save in this order, one stage after the other and none
\* twice; it ends early only after a fetch without data or a filter without
\* stock, and then nothing is classified and no results file is written
C22_MainPipeline ==
    [][(run.program = "main" /\ run.at \notin {"exit", "saved"}) => MainStep]_vars

\* a run of main that has gone through every stage
C22_Witness ==
    /\ run.program = "main"
    /\ run.at = "saved"
    /\ run.cache_saved
    /\ run.classified = 2
    /\ run.scan # None

\* filter_universe has run
Filtered == Scanning /\ run.cache_saved /\ run.at # "cached"

\* the three minimums as the description of the filter states them
MeetsMinimums(stock) ==
    /\ FGe(stock.market_cap, Flt(MIN_MARKET_CAP))
    /\ FGe(stock.current_price, Flt(MIN_PRICE))
    /\ FGe(FMul(stock.current_price, stock.avg_volume_20d), Flt(MIN_AVG_VOLUME))

\* C23: filter_universe returns exactly the stocks of its input whose market
\* cap, price and price times average volume are at least the minimums, in
\* input order and each once
C23_FilterKeepsExactly ==
    Filtered =>
        run.filtered_data =
            SelectSeq([i \in 1..Len(run.all_data) |-> i],
                      LAMBDA i : MeetsMinimums(run.all_data[i]))

\* C26: in main and main_full every record that reaches classify_stock has
\* at least 5 bars, a volume history of the same length and an average volume
\* above 0, so that calculate_price_changes gives features and classify_stock
\* does not raise
C26_ClassifiedRecordsSound ==
    (Scanning /\ run.at = "classify") =>
        \A k \in 1..Len(run.filtered_data) :
            LET stock == run.all_data[run.filtered_data[k]]
                result == classify_stock(stock).result
            IN  /\ Len(stock.price_history) >= 5
                /\ Len(stock.volume_history) = Len(stock.price_history)
                /\ FGt(stock.avg_volume_20d, Flt(0))
                /\ calculate_price_changes(stock.price_history) # None
                /\ ~(result # None /\ "st" \in DOMAIN result)

\* C27: the ticker universe cache file, when there is one, holds a ticker
\* list that is not empty: no run of main_full that fetched no tickers leaves
\* a file behind that the later runs load in place of fetching
C27_CacheFileNeverEmpty ==
    universe_cache_file.exists => load_ticker_list(universe_cache_file) # <<>>

====
